---- MODULE Spec2Model ----
(***************************************************************************)
(* The schema algebra of src/src/schema.ts: schema nodes, their            *)
(* requiredness, the default-fill traversal and the bsonSchema derivation. *)
(*                                                                         *)
(* A caller holds one schema node at a time (node).  Every factory and     *)
(* every combinator method is an action that replaces it by the node the   *)
(* call returns; required(), fill(input) and bsonSchema() are actions that *)
(* leave the node alone and record the call and what it returned.          *)
(*                                                                         *)
(* Spec explores the nodes as values.  SpecObjects explores them as        *)
(* objects: every node, every options object and every indexes list is a   *)
(* cell of a heap, a node refers to its options and its children by        *)
(* address, and a method call allocates what the method allocates.         *)
(* SpecRonk explores the database object built from a name -> collection   *)
(* node mapping and the lookups on its collections registry.               *)
(***************************************************************************)
EXTENDS Integers, Sequences, FiniteSets, TLC

VARIABLES
  node,     \* the schema node the caller holds (none before the first factory call)
  call,     \* the last call made: [op |-> name, input |-> argument of fill]
  ret,      \* what required() / fill() / bsonSchema() returned (undefined otherwise)
  invoked,  \* how many times a default producer was invoked by the last call
  heap,     \* the objects allocated so far, by address (1 .. Len(heap))
  at,       \* the address of the node object the caller holds (0: none)
  calls,    \* the setter calls that led from a constructed node to the held one
  ronk      \* the database object: its schema and its collection handles

vars == <<node, call, ret, invoked, heap, at, calls, ronk>>

(***************************************************************************)
(* Bounds of the exploration.                                              *)
(***************************************************************************)
\* deepest nesting of schema nodes that is built (a leaf has depth 1)
MaxDepth == 3

(***************************************************************************)
(* JavaScript values.  Every value is a record tagged by t.                *)
(*   undefined, null, strings, numbers, booleans                           *)
(*   arrays: a sequence whose elements are values or hole (a missing index *)
(*           of a sparse array)                                            *)
(*   plain objects: a function from own keys to values                     *)
(*   RegExp objects, class instances (Date, ObjectId: objects that are not *)
(*   plain), and functions of no argument (a producer, with what it        *)
(*   returns)                                                              *)
(***************************************************************************)
undefined == [t |-> "undefined"]
null == [t |-> "null"]
hole == [t |-> "hole"]
Str(s) == [t |-> "string", s |-> s]
Num(n) == [t |-> "number", n |-> n]
Bool(b) == [t |-> "boolean", b |-> b]
Arr(a) == [t |-> "array", a |-> a]
Obj(o) == [t |-> "object", o |-> o]
RegExp(source) == [t |-> "regexp", source |-> source]
Instance(c) == [t |-> "instance", class |-> c]
Fn(returns) == [t |-> "function", returns |-> returns]

\* the empty plain object {}
EmptyObj == [k \in {} |-> undefined]

\* input[key]: undefined for a key the object does not have
Get(o, key) == IF key \in DOMAIN o THEN o[key] ELSE undefined

\* s[i] of an array: a hole reads as undefined
At(a, i) == IF a[i] = hole THEN undefined ELSE a[i]

\* { ...v }: the own properties of a plain object, nothing for undefined / false
Spread(v) == IF v.t = "object" THEN v.o ELSE EmptyObj

\* const { key, ...rest } = o
Omit(o, keys) == [k \in DOMAIN o \ keys |-> o[k]]

\* JavaScript truthiness of the values used as options
Truthy(v) ==
  CASE v.t = "undefined" -> FALSE
    [] v.t = "null" -> FALSE
    [] v.t = "boolean" -> v.b
    [] v.t = "string" -> v.s # ""
    [] v.t = "number" -> v.n # 0
    [] OTHER -> TRUE

isFunction(value) == value.t = "function"

isArray(value) == value.t = "array"

isPlainObject(value) == value.t = "object"

(***************************************************************************)
(* Own-property enumeration order (Object.entries, Object.keys): keys that *)
(* are array indices come first, in ascending numeric order, then the      *)
(* other string keys in the order they were declared.                      *)
(***************************************************************************)
\* the array-index keys the model uses, in ascending numeric order
ArrayIndexKeys == <<"0", "1", "2">>

IsArrayIndex(key) == \E i \in DOMAIN ArrayIndexKeys : ArrayIndexKeys[i] = key

RECURSIVE SelectEntries(_, _)
\* the entries of a declaration whose key is in a set, declaration order kept
SelectEntries(decl, keys) ==
  IF decl = <<>> THEN <<>>
  ELSE IF Head(decl)[1] \in keys
       THEN <<Head(decl)>> \o SelectEntries(Tail(decl), keys)
       ELSE SelectEntries(Tail(decl), keys)

RECURSIVE IndexEntries(_, _)
\* the entries with array-index keys, ascending from ArrayIndexKeys[i]
IndexEntries(decl, i) ==
  IF i > Len(ArrayIndexKeys) THEN <<>>
  ELSE SelectEntries(decl, {ArrayIndexKeys[i]}) \o IndexEntries(decl, i + 1)

DeclaredKeys(decl) == {decl[i][1] : i \in DOMAIN decl}

\* faulty variant: plain declaration order, array-index keys not moved to the front
ObjectEntriesDeclared(props) == props

\* Object.entries(props) for props declared as the sequence of <<key, child>>
ObjectEntries(props) ==
  IndexEntries(props, 1)
    \o SelectEntries(props, {k \in DeclaredKeys(props) : ~IsArrayIndex(k)})

\* Object.fromEntries(entries): a later entry of the same key wins
FromEntries(entries) ==
  [k \in {entries[i][1] : i \in DOMAIN entries} |->
     LET last == CHOOSE i \in DOMAIN entries :
                   /\ entries[i][1] = k
                   /\ \A j \in DOMAIN entries : entries[j][1] = k => j <= i
     IN entries[last][2]]

(***************************************************************************)
(* Schema nodes.  A node is a record: kind is its class, options the       *)
(* options object handed to the Schema constructor (undefined when none    *)
(* was), and the fields its class declares.                                *)
(***************************************************************************)
\* no node built yet
NoSchema == [kind |-> "none"]

NullSchema(options) == [kind |-> "null", options |-> options]

BoolSchema(options) == [kind |-> "bool", options |-> options]

DateSchema(options) == [kind |-> "date", options |-> options]

BinarySchema(options) == [kind |-> "binary", options |-> options]

ObjectIdSchema(options) == [kind |-> "objectid", options |-> options]

RefSchema(ref, options) == [kind |-> "ref", ref |-> ref, options |-> options]

EnumSchema(values) == [kind |-> "enum", values |-> values, options |-> undefined]

StringSchema(options) == [kind |-> "string", options |-> options]

NumberSchema(options) == [kind |-> "number", options |-> options]

ArraySchema(items, options) ==
  [kind |-> "array", items |-> items, options |-> options]

ObjectSchema(props, options) ==
  [kind |-> "object", props |-> props, options |-> options]

CollectionSchema(props, options) ==
  [kind |-> "document", props |-> props, options |-> options]

RecordSchema(key, value, options) ==
  [kind |-> "record", key |-> key, value |-> value, options |-> options]

OptionalSchema(type) == [kind |-> "optional", type |-> type, options |-> undefined]

DefaultSchema(type, defaultValue) ==
  [kind |-> "default", type |-> type, defaultValue |-> defaultValue,
   options |-> undefined]

UnionSchema(types, options) ==
  [kind |-> "union", types |-> types, options |-> options]

IntersectionSchema(types) ==
  [kind |-> "intersection", types |-> types, options |-> undefined]

\* the classes that keep Schema.required and Schema.fill as they inherit them
PrimitiveKinds == {"null", "bool", "date", "binary", "objectid", "string", "number"}

\* the children of a node, as a sequence
Children(n) ==
  CASE n.kind = "array" -> <<n.items>>
    [] n.kind \in {"object", "document"} -> [i \in DOMAIN n.props |-> n.props[i][2]]
    [] n.kind = "record" -> <<n.key, n.value>>
    [] n.kind \in {"optional", "default"} -> <<n.type>>
    [] n.kind \in {"union", "intersection"} -> n.types
    [] OTHER -> <<>>

RECURSIVE Depth(_)
Depth(n) ==
  LET c == Children(n)
      RECURSIVE Deepest(_)
      Deepest(i) == IF i > Len(c) THEN 0
                    ELSE LET d == Depth(c[i])
                             r == Deepest(i + 1)
                         IN IF d > r THEN d ELSE r
  IN IF n = NoSchema THEN 0 ELSE 1 + Deepest(1)

RECURSIVE SubSchemas(_)
\* a node and every node nested in it
SubSchemas(n) ==
  LET c == Children(n)
  IN {n} \cup UNION {SubSchemas(c[i]) : i \in DOMAIN c}

(***************************************************************************)
(* required()                                                              *)
(***************************************************************************)
RECURSIVE required(_)

\* faulty variant: a default node as required as the node it wraps
Schema_required_inner(self) ==
  IF self.kind = "default" THEN required(self.type) ELSE TRUE

Schema_required(self) == TRUE

\* faulty variant: the inherited Schema.required, the values never looked at
EnumSchema_required_inherited(self) == TRUE

EnumSchema_required(self) ==
  \A i \in DOMAIN self.values : self.values[i] # undefined

\* faulty variant: an optional node as required as the node it wraps
OptionalSchema_required_inner(self) == required(self.type)

OptionalSchema_required(self) == FALSE

\* faulty variant: some in place of every
UnionSchema_required_some(self) ==
  \E i \in DOMAIN self.types : required(self.types[i])

UnionSchema_required(self) ==
  \A i \in DOMAIN self.types : required(self.types[i])

\* faulty variant: every in place of some
IntersectionSchema_required_every(self) ==
  \A i \in DOMAIN self.types : required(self.types[i])

IntersectionSchema_required(self) ==
  \E i \in DOMAIN self.types : required(self.types[i])

\* self.required(), dispatched on the class of self
required(self) ==
  CASE self.kind = "enum" -> EnumSchema_required(self)
    [] self.kind = "optional" -> OptionalSchema_required(self)
    [] self.kind = "union" -> UnionSchema_required(self)
    [] self.kind = "intersection" -> IntersectionSchema_required(self)
    [] OTHER -> Schema_required(self)

(***************************************************************************)
(* fill(input).  A fill returns [v |-> the value, n |-> the number of      *)
(* producer invocations it made], the invocations of nested fills          *)
(* included.                                                               *)
(***************************************************************************)
RECURSIVE fill(_, _)

Schema_fill(self, input) == [v |-> input, n |-> 0]

RECURSIVE MapFill(_, _, _)
\* input.map(item => items.fill(item)) from index i on: map skips the holes
\* of a sparse array and leaves them holes
MapFill(items, a, i) ==
  IF i > Len(a) THEN [v |-> <<>>, n |-> 0]
  ELSE LET rest == MapFill(items, a, i + 1)
       IN IF a[i] = hole
          THEN [v |-> <<hole>> \o rest.v, n |-> rest.n]
          ELSE LET r == fill(items, a[i])
               IN [v |-> <<r.v>> \o rest.v, n |-> r.n + rest.n]

\* faulty variant: an input that is not an array coerced to a one-element array
ArraySchema_fill_wrap(self, input) ==
  IF ~isArray(input) THEN [v |-> Arr(<<input>>), n |-> 0]
  ELSE LET r == MapFill(self.items, input.a, 1)
       IN [v |-> Arr(r.v), n |-> r.n]

ArraySchema_fill(self, input) ==
  IF ~isArray(input) THEN [v |-> input, n |-> 0]
  ELSE LET r == MapFill(self.items, input.a, 1)
       IN [v |-> Arr(r.v), n |-> r.n]

RECURSIVE SumCalls(_, _)
SumCalls(filled, i) ==
  IF i > Len(filled) THEN 0 ELSE filled[i][2].n + SumCalls(filled, i + 1)

\* faulty variant: the declared properties alone, the input's own properties dropped
PropsFillDeclaredOnly(props, input) ==
  LET entries == ObjectEntries(props)
      filled == [i \in DOMAIN entries |->
                   <<entries[i][1], fill(entries[i][2], Get(input.o, entries[i][1]))>>]
      values == FromEntries([i \in DOMAIN filled |-> <<filled[i][1], filled[i][2].v>>])
  IN [v |-> Obj(values), n |-> SumCalls(filled, 1)]

\* faulty variant: a declared property whose fill is undefined left out
PropsFillDefined(props, input) ==
  LET entries == ObjectEntries(props)
      filled == [i \in DOMAIN entries |->
                   <<entries[i][1], fill(entries[i][2], Get(input.o, entries[i][1]))>>]
      values == FromEntries([i \in DOMAIN filled |-> <<filled[i][1], filled[i][2].v>>])
      defined == {k \in DOMAIN values : values[k] # undefined}
  IN [v |-> Obj([k \in defined |-> values[k]] @@ Spread(input)),
      n |-> SumCalls(filled, 1)]

\* { ...input, ...Object.fromEntries(Object.entries(props).map(
\*     ([key, value]) => [key, value.fill(input[key])])) }
PropsFill(props, input) ==
  LET entries == ObjectEntries(props)
      filled == [i \in DOMAIN entries |->
                   <<entries[i][1], fill(entries[i][2], Get(input.o, entries[i][1]))>>]
      values == FromEntries([i \in DOMAIN filled |-> <<filled[i][1], filled[i][2].v>>])
  IN [v |-> Obj(values @@ Spread(input)), n |-> SumCalls(filled, 1)]

\* faulty variant: no guard, the properties read through input?.[key]
ObjectSchema_fill_unguarded(self, input) ==
  PropsFill(self.props, IF isPlainObject(input) THEN input ELSE Obj(EmptyObj))

ObjectSchema_fill(self, input) ==
  IF ~isPlainObject(input) THEN [v |-> input, n |-> 0]
  ELSE PropsFill(self.props, input)

CollectionSchema_fill(self, input) ==
  IF ~isPlainObject(input) THEN [v |-> input, n |-> 0]
  ELSE PropsFill(self.props, input)

RECURSIVE SumFills(_, _, _)
\* the producer invocations of the fills of the values under a set of keys
SumFills(value, o, keys) ==
  IF keys = {} THEN 0
  ELSE LET k == CHOOSE key \in keys : TRUE
       IN fill(value, o[k]).n + SumFills(value, o, keys \ {k})

\* faulty variant: the values filled through the value node
RecordSchema_fill_values(self, input) ==
  IF ~isPlainObject(input) THEN [v |-> input, n |-> 0]
  ELSE [v |-> Obj([k \in DOMAIN input.o |-> fill(self.value, input.o[k]).v]),
        n |-> SumFills(self.value, input.o, DOMAIN input.o)]

RecordSchema_fill(self, input) ==
  IF ~isPlainObject(input) THEN [v |-> input, n |-> 0]
  ELSE [v |-> Obj(Spread(input)), n |-> 0]

OptionalSchema_fill(self, input) ==
  IF input # undefined THEN fill(self.type, input) ELSE [v |-> undefined, n |-> 0]

\* faulty variant: null taken for absent as well (input ?? default)
DefaultSchema_resolve_nullish(self, input) ==
  IF input \notin {undefined, null} THEN [v |-> input, n |-> 0]
  ELSE IF isFunction(self.defaultValue)
       THEN [v |-> self.defaultValue.returns, n |-> 1]
       ELSE [v |-> self.defaultValue, n |-> 0]

\* faulty variant: the producer invoked before the input is looked at
DefaultSchema_resolve_eager(self, input) ==
  LET d == IF isFunction(self.defaultValue)
           THEN [v |-> self.defaultValue.returns, n |-> 1]
           ELSE [v |-> self.defaultValue, n |-> 0]
  IN [v |-> IF input # undefined THEN input ELSE d.v, n |-> d.n]

\* the argument DefaultSchema.fill hands to the inner fill, with the number of
\* producer invocations made to get it
DefaultSchema_resolve(self, input) ==
  IF input # undefined THEN [v |-> input, n |-> 0]
  ELSE IF isFunction(self.defaultValue)
       THEN [v |-> self.defaultValue.returns, n |-> 1]
       ELSE [v |-> self.defaultValue, n |-> 0]

DefaultSchema_fill(self, input) ==
  LET arg == DefaultSchema_resolve(self, input)
      r == fill(self.type, arg.v)
  IN [v |-> r.v, n |-> arg.n + r.n]

\* self.fill(input), dispatched on the class of self
fill(self, input) ==
  CASE self.kind = "array" -> ArraySchema_fill(self, input)
    [] self.kind = "object" -> ObjectSchema_fill(self, input)
    [] self.kind = "document" -> CollectionSchema_fill(self, input)
    [] self.kind = "record" -> RecordSchema_fill(self, input)
    [] self.kind = "optional" -> OptionalSchema_fill(self, input)
    [] self.kind = "default" -> DefaultSchema_fill(self, input)
    [] OTHER -> Schema_fill(self, input)

(***************************************************************************)
(* bsonSchema().  A derivation returns a plain object; { a: x, ...o, b: y } *)
(* is written [b |-> y] @@ Spread(o) @@ [a |-> x]: a later key wins.        *)
(***************************************************************************)
RECURSIVE bsonSchema(_)

NullSchema_bsonSchema(self) ==
  Obj(Spread(self.options) @@ [bsonType |-> Str("null")])

BoolSchema_bsonSchema(self) ==
  Obj(Spread(self.options) @@ [bsonType |-> Str("bool")])

DateSchema_bsonSchema(self) ==
  Obj(Spread(self.options) @@ [bsonType |-> Str("date")])

BinarySchema_bsonSchema(self) ==
  Obj(Spread(self.options) @@ [bsonType |-> Str("binData")])

ObjectIdSchema_bsonSchema(self) ==
  Obj(Spread(self.options) @@ [bsonType |-> Str("objectId")])

RefSchema_bsonSchema(self) ==
  LET options == Omit(Spread(self.options), {"deletePolicy"})
  IN Obj(options @@ [bsonType |-> Str("objectId")])

EnumSchema_bsonSchema(self) ==
  Obj(Spread(self.options) @@ [enum |-> Arr(self.values)])

\* pattern instanceof RegExp ? pattern.source : pattern
PatternSource(pattern) ==
  IF pattern.t = "regexp" THEN Str(pattern.source) ELSE pattern

StringSchema_bsonSchema(self) ==
  LET pattern == Get(Spread(self.options), "pattern")
      options == Omit(Spread(self.options), {"pattern"})
  IN Obj((IF Truthy(pattern) THEN [pattern |-> PatternSource(pattern)] ELSE EmptyObj)
           @@ options @@ [bsonType |-> Str("string")])

\* faulty variant: the subtype left among the options, not made the type tag
NumberSchema_bsonSchema_untyped(self) ==
  Obj(Spread(self.options) @@ [bsonType |-> Str("number")])

NumberSchema_bsonSchema(self) ==
  LET type == Get(Spread(self.options), "type")
      options == Omit(Spread(self.options), {"type"})
  IN Obj(options
           @@ [bsonType |-> IF type \in {undefined, null} THEN Str("number") ELSE type])

ArraySchema_bsonSchema(self) ==
  Obj([items |-> bsonSchema(self.items)]
        @@ Spread(self.options) @@ [bsonType |-> Str("array")])

RECURSIVE FilterRequired(_)
\* entries.filter(([, value]) => value.required()).map(([key]) => key)
FilterRequired(entries) ==
  IF entries = <<>> THEN <<>>
  ELSE (IF required(Head(entries)[2]) THEN <<Str(Head(entries)[1])>> ELSE <<>>)
         \o FilterRequired(Tail(entries))

RequiredKeys(props) == FilterRequired(ObjectEntries(props))

\* Object.fromEntries(Object.entries(props).map(([key, value]) => [key, value.bsonSchema()]))
Properties(props) ==
  LET entries == ObjectEntries(props)
  IN FromEntries([i \in DOMAIN entries |-> <<entries[i][1], bsonSchema(entries[i][2])>>])

ObjectSchema_bsonSchema(self) ==
  Obj([required |-> Arr(RequiredKeys(self.props)),
       properties |-> Obj(Properties(self.props))]
        @@ Spread(self.options) @@ [bsonType |-> Str("object")])

CollectionSchema_bsonSchema(self) ==
  Obj([required |-> Arr(RequiredKeys(self.props)),
       properties |-> Obj(Properties(self.props))]
        @@ Spread(self.options) @@ [bsonType |-> Str("object")])

\* the property key a value is converted to when it is used as one
ToPropertyKey(v) == IF v.t = "string" THEN v.s ELSE v.t

\* the key of patternProperties for a string key node
KeyPattern(key) ==
  LET pattern == Get(Spread(key.options), "pattern")
  IN IF ~Truthy(pattern) THEN "^.*$" ELSE PatternSource(pattern).s

\* faulty variant: required emitted whether or not the value node is required
RecordSchema_bsonSchema_required(self) ==
  LET valueSchema == bsonSchema(self.value)
      values == IF self.key.kind = "enum" THEN self.key.values ELSE <<>>
  IN Obj((IF self.key.kind = "enum"
          THEN [properties |->
                  Obj(FromEntries([i \in DOMAIN values |->
                                     <<ToPropertyKey(values[i]), valueSchema>>])),
                required |-> Arr(values)]
          ELSE [patternProperties |->
                  Obj([k \in {KeyPattern(self.key)} |-> valueSchema])])
           @@ Spread(self.options) @@ [bsonType |-> Str("object")])

RecordSchema_bsonSchema(self) ==
  LET valueSchema == bsonSchema(self.value)
      req == required(self.value)
      values == IF self.key.kind = "enum" THEN self.key.values ELSE <<>>
  IN Obj((IF self.key.kind = "enum"
          THEN [properties |->
                  Obj(FromEntries([i \in DOMAIN values |->
                                     <<ToPropertyKey(values[i]), valueSchema>>]))]
                 @@ (IF req THEN [required |-> Arr(values)] ELSE EmptyObj)
          ELSE [patternProperties |->
                  Obj([k \in {KeyPattern(self.key)} |-> valueSchema])])
           @@ Spread(self.options) @@ [bsonType |-> Str("object")])

OptionalSchema_bsonSchema(self) == bsonSchema(self.type)

DefaultSchema_bsonSchema(self) == bsonSchema(self.type)

UnionSchema_bsonSchema(self) ==
  LET exclusive == Get(Spread(self.options), "exclusive")
      options == Omit(Spread(self.options), {"exclusive"})
      members == Arr([i \in DOMAIN self.types |-> bsonSchema(self.types[i])])
  IN Obj((IF Truthy(exclusive) THEN [oneOf |-> members] ELSE [anyOf |-> members])
           @@ options)

IntersectionSchema_bsonSchema(self) ==
  Obj([allOf |-> Arr([i \in DOMAIN self.types |-> bsonSchema(self.types[i])])]
        @@ Spread(self.options))

\* self.bsonSchema(), dispatched on the class of self
bsonSchema(self) ==
  CASE self.kind = "null" -> NullSchema_bsonSchema(self)
    [] self.kind = "bool" -> BoolSchema_bsonSchema(self)
    [] self.kind = "date" -> DateSchema_bsonSchema(self)
    [] self.kind = "binary" -> BinarySchema_bsonSchema(self)
    [] self.kind = "objectid" -> ObjectIdSchema_bsonSchema(self)
    [] self.kind = "ref" -> RefSchema_bsonSchema(self)
    [] self.kind = "enum" -> EnumSchema_bsonSchema(self)
    [] self.kind = "string" -> StringSchema_bsonSchema(self)
    [] self.kind = "number" -> NumberSchema_bsonSchema(self)
    [] self.kind = "array" -> ArraySchema_bsonSchema(self)
    [] self.kind = "object" -> ObjectSchema_bsonSchema(self)
    [] self.kind = "document" -> CollectionSchema_bsonSchema(self)
    [] self.kind = "record" -> RecordSchema_bsonSchema(self)
    [] self.kind = "optional" -> OptionalSchema_bsonSchema(self)
    [] self.kind = "default" -> DefaultSchema_bsonSchema(self)
    [] self.kind = "union" -> UnionSchema_bsonSchema(self)
    [] self.kind = "intersection" -> IntersectionSchema_bsonSchema(self)

(***************************************************************************)
(* Option setters: each returns a new node whose options are               *)
(* { ...this.options, key: value }.                                        *)
(***************************************************************************)
\* faulty variant: the options set before not carried over
WithOnly(options, key, value) == Obj([k \in {key} |-> value])

\* { ...options, key: value }
With(options, key, value) == Obj([k \in {key} |-> value] @@ Spread(options))

NumberSchema_int(self) == NumberSchema(With(self.options, "type", Str("int")))

NumberSchema_long(self) == NumberSchema(With(self.options, "type", Str("long")))

NumberSchema_decimal(self) == NumberSchema(With(self.options, "type", Str("decimal")))

NumberSchema_double(self) == NumberSchema(With(self.options, "type", Str("double")))

ObjectSchema_strict(self) ==
  ObjectSchema(self.props, With(self.options, "additionalProperties", Bool(FALSE)))

CollectionSchema_strict(self) ==
  CollectionSchema(self.props, With(self.options, "additionalProperties", Bool(FALSE)))

RecordSchema_strict(self) ==
  RecordSchema(self.key, self.value,
               With(self.options, "additionalProperties", Bool(FALSE)))

(***************************************************************************)
(* What the caller passes: the values and nodes the actions draw from.     *)
(***************************************************************************)
\* the value lists of enum(...)
EnumValues ==
  { <<Str("admin"), Str("user")>>, <<Str("a"), undefined>> }

\* nodes passed next to the held node as members and properties
OptionalString == OptionalSchema(StringSchema(undefined))

DefaultRole == DefaultSchema(EnumSchema(<<Str("admin"), Str("user")>>), Str("user"))

\* the enum key node of record(key, value)
EnumKey == EnumSchema(<<Str("x"), Str("y")>>)

\* the defaults of default(...): a literal and a producer
DefaultValues == { Str("y"), Fn(Str("x")) }

\* the target names of ref(...)
RefNames == {"users"}

\* the inputs of fill(...)
Inputs ==
  { undefined, null, Str("z"), Instance("Date"),
    Arr(<<undefined, Str("z")>>), Arr(<<hole, Str("z")>>),
    Obj([extra |-> Num(1)]),
    Obj([role |-> Str("admin"), extra |-> undefined]) }

\* the lists of others passed to or(...) and and(...)
Others == { <<>>, <<OptionalString>> }

\* the member lists passed to union(...) and intersection(...)
TypeLists(held) ==
  {<<>>} \cup (IF held = NoSchema THEN {<<DefaultRole, OptionalString>>}
               ELSE {<<DefaultRole, held>>})

\* the object literals passed to object({...}) and collection({...}); their
\* property names are distinct, and "0" and "1" are array indices
PropDecls(held) ==
  IF held = NoSchema
  THEN {<<>>, <<<<"role", DefaultRole>>, <<"1", OptionalString>>>>}
  ELSE {<<<<"role", held>>, <<"1", DefaultRole>>, <<"0", held>>>>,
        <<<<"name", OptionalString>>, <<"role", held>>>>}

(***************************************************************************)
(* The calls.  A schema is defined first and used afterwards: the          *)
(* factories and combinator methods act until the first required(),        *)
(* fill() or bsonSchema() call.  A factory or a combinator method hands    *)
(* the caller a new node and invokes no producer.                          *)
(***************************************************************************)
Defining == call.op \in {"none", "new"}

Held == node # NoSchema

\* the bookkeeping of a call that returned the new node n
Constructed(n) ==
  /\ Defining
  /\ Depth(n) <= MaxDepth
  /\ call' = [op |-> "new", input |-> undefined]
  /\ ret' = undefined
  /\ invoked' = 0
  /\ UNCHANGED <<heap, at, calls, ronk>>

null_ ==
  /\ node' = NullSchema(undefined)
  /\ Constructed(node')

bool ==
  /\ node' = BoolSchema(undefined)
  /\ Constructed(node')

date ==
  /\ node' = DateSchema(undefined)
  /\ Constructed(node')

binary ==
  /\ node' = BinarySchema(undefined)
  /\ Constructed(node')

objectId ==
  /\ node' = ObjectIdSchema(undefined)
  /\ Constructed(node')

ref ==
  /\ \E name \in RefNames : node' = RefSchema(name, undefined)
  /\ Constructed(node')

enum_ ==
  /\ \E values \in EnumValues : node' = EnumSchema(values)
  /\ Constructed(node')

string ==
  /\ node' = StringSchema(undefined)
  /\ Constructed(node')

number ==
  /\ node' = NumberSchema(undefined)
  /\ Constructed(node')

int ==
  /\ node' = NumberSchema_int(NumberSchema(undefined))
  /\ Constructed(node')

long ==
  /\ node' = NumberSchema_long(NumberSchema(undefined))
  /\ Constructed(node')

decimal ==
  /\ node' = NumberSchema_decimal(NumberSchema(undefined))
  /\ Constructed(node')

double ==
  /\ node' = NumberSchema_double(NumberSchema(undefined))
  /\ Constructed(node')

array ==
  /\ \E items \in (IF Held THEN {node} ELSE {DefaultRole}) :
       node' = ArraySchema(items, undefined)
  /\ Constructed(node')

object ==
  /\ \E properties \in PropDecls(node) : node' = ObjectSchema(properties, undefined)
  /\ Constructed(node')

collection ==
  /\ \E properties \in PropDecls(node) : node' = CollectionSchema(properties, undefined)
  /\ Constructed(node')

record ==
  /\ \E value \in (IF Held THEN {node} ELSE {DefaultRole}) :
       node' = RecordSchema(EnumKey, value, undefined)
  /\ Constructed(node')

union ==
  /\ \E types \in TypeLists(node) : node' = UnionSchema(types, undefined)
  /\ Constructed(node')

intersection ==
  /\ \E types \in TypeLists(node) : node' = IntersectionSchema(types)
  /\ Constructed(node')

Schema_array ==
  /\ Held
  /\ node' = ArraySchema(node, undefined)
  /\ Constructed(node')

Schema_record ==
  /\ Held
  /\ node' = RecordSchema(StringSchema(undefined), node, undefined)
  /\ Constructed(node')

Schema_or ==
  /\ Held
  /\ \E types \in Others : node' = UnionSchema(<<node>> \o types, undefined)
  /\ Constructed(node')

Schema_and ==
  /\ Held
  /\ \E types \in Others : node' = IntersectionSchema(<<node>> \o types)
  /\ Constructed(node')

Schema_optional ==
  /\ Held
  /\ node' = OptionalSchema(node)
  /\ Constructed(node')

Schema_nullable ==
  /\ Held
  /\ node' = UnionSchema(<<node, NullSchema(undefined)>>, undefined)
  /\ Constructed(node')

Schema_nullish ==
  /\ Held
  /\ node' = OptionalSchema(UnionSchema(<<node, NullSchema(undefined)>>, undefined))
  /\ Constructed(node')

Schema_default ==
  /\ Held
  /\ \E defaultValue \in DefaultValues : node' = DefaultSchema(node, defaultValue)
  /\ Constructed(node')

\* node.required()
Call_required ==
  /\ Held
  /\ ret' = Bool(required(node))
  /\ call' = [op |-> "required", input |-> undefined]
  /\ invoked' = 0
  /\ UNCHANGED <<node, heap, at, calls, ronk>>

\* node.fill(input)
Call_fill ==
  /\ Held
  /\ \E input \in Inputs :
       LET r == fill(node, input)
       IN /\ ret' = r.v
          /\ invoked' = r.n
          /\ call' = [op |-> "fill", input |-> input]
  /\ UNCHANGED <<node, heap, at, calls, ronk>>

\* node.bsonSchema()
Call_bsonSchema ==
  /\ Held
  /\ ret' = bsonSchema(node)
  /\ call' = [op |-> "bsonSchema", input |-> undefined]
  /\ invoked' = 0
  /\ UNCHANGED <<node, heap, at, calls, ronk>>

Init ==
  /\ node = NoSchema
  /\ call = [op |-> "none", input |-> undefined]
  /\ ret = undefined
  /\ invoked = 0
  /\ heap = <<>>
  /\ at = 0
  /\ calls = <<>>
  /\ ronk = [class |-> "none"]

Next ==
  \/ null_ \/ bool \/ date \/ binary \/ objectId \/ ref \/ enum_
  \/ string \/ number \/ int \/ long \/ decimal \/ double
  \/ array \/ object \/ collection \/ record \/ union \/ intersection
  \/ Schema_array \/ Schema_record \/ Schema_or \/ Schema_and
  \/ Schema_optional \/ Schema_nullable \/ Schema_nullish \/ Schema_default
  \/ Call_required \/ Call_fill \/ Call_bsonSchema

Spec == Init /\ [][Next]_vars

(***************************************************************************)
(* The nodes as objects.  A cell of the heap is a node object (a node      *)
(* record whose options and children are addresses, options 0 when the     *)
(* constructor was handed none), an options object (a plain object; its    *)
(* indexes property holds a reference to a list) or a list (an array).     *)
(* A method never writes to a cell that exists: it allocates.              *)
(***************************************************************************)
\* the most cells that are allocated
MaxCells == 7

\* deepest nesting of a node object that is wrapped in another (a leaf has
\* depth 1)
MaxNesting == 1

\* a reference to the cell at an address, held as a property value
Ref(a) == [t |-> "ref", at |-> a]

\* the node object new C(...) makes when it is handed no options
New(n) == [n EXCEPT !.options = 0]

\* this.options of the node object at an address, its references kept
OptionsOf(h, a) == IF h[a].options = 0 THEN undefined ELSE h[h[a].options]

\* this.options of the node object at an address, as the value it reads as:
\* a property holding a reference reads as the object referred to
OptionsValue(h, a) ==
  LET options == OptionsOf(h, a)
  IN IF options = undefined THEN undefined
     ELSE Obj([k \in DOMAIN options.o |->
                 IF options.o[k].t = "ref" THEN h[options.o[k].at]
                 ELSE options.o[k]])

RECURSIVE NodeAt(_, _)
\* the node that the node object at an address reads as, its children and
\* options followed
NodeAt(h, a) ==
  LET c == h[a]
      options == OptionsValue(h, a)
  IN CASE c.kind = "array" ->
            [c EXCEPT !.items = NodeAt(h, @), !.options = options]
       [] c.kind \in {"object", "document"} ->
            [c EXCEPT !.props = [i \in DOMAIN @ |-> <<@[i][1], NodeAt(h, @[i][2])>>],
                      !.options = options]
       [] c.kind = "record" ->
            [c EXCEPT !.key = NodeAt(h, @), !.value = NodeAt(h, @),
                      !.options = options]
       [] c.kind \in {"optional", "default"} ->
            [c EXCEPT !.type = NodeAt(h, @), !.options = options]
       [] c.kind \in {"union", "intersection"} ->
            [c EXCEPT !.types = [i \in DOMAIN @ |-> NodeAt(h, @[i])],
                      !.options = options]
       [] OTHER -> [c EXCEPT !.options = options]

Holding == at # 0

\* the caller holds a node object of one of these classes
Is(kinds) == Holding /\ heap[at].kind \in kinds

\* the bookkeeping of a factory or combinator call: the cells it allocated,
\* the node it returns last
Allocated(cells) ==
  /\ Len(heap) + Len(cells) <= MaxCells
  /\ heap' = heap \o cells
  /\ at' = Len(heap')
  /\ Holding => Depth(NodeAt(heap, at)) <= MaxNesting
  /\ calls' = <<>>
  /\ UNCHANGED <<node, call, ret, invoked, ronk>>

\* a setter: a new options object { ...this.options, key: value } and a new
\* node object of the class and with the fields of this
Set(method, key, value) ==
  /\ Len(heap) + 2 <= MaxCells
  /\ heap' = heap \o << With(OptionsOf(heap, at), key, value),
                        [heap[at] EXCEPT !.options = Len(heap) + 1] >>
  /\ at' = Len(heap')
  /\ calls' = Append(calls, [method |-> method, key |-> key, value |-> value, on |-> at])
  /\ UNCHANGED <<node, call, ret, invoked, ronk>>

\* null(), bool(), date(), binary(), objectId()
New_Primitive ==
  /\ ~Holding
  /\ \/ Allocated(<<New(NullSchema(undefined))>>)
     \/ Allocated(<<New(BoolSchema(undefined))>>)
     \/ Allocated(<<New(DateSchema(undefined))>>)
     \/ Allocated(<<New(BinarySchema(undefined))>>)
     \/ Allocated(<<New(ObjectIdSchema(undefined))>>)

New_RefSchema ==
  /\ ~Holding
  /\ \E name \in RefNames : Allocated(<<New(RefSchema(name, undefined))>>)

New_EnumSchema ==
  /\ ~Holding
  /\ \E values \in EnumValues : Allocated(<<New(EnumSchema(values))>>)

New_StringSchema ==
  /\ ~Holding
  /\ Allocated(<<New(StringSchema(undefined))>>)

New_NumberSchema ==
  /\ ~Holding
  /\ Allocated(<<New(NumberSchema(undefined))>>)

\* object({}) and object({ a: the held node })
New_ObjectSchema ==
  /\ LET properties == IF Holding THEN <<<<"a", at>>>> ELSE <<>>
     IN Allocated(<<New(ObjectSchema(properties, undefined))>>)

\* collection({}) and collection({ a: the held node })
New_CollectionSchema ==
  /\ LET properties == IF Holding THEN <<<<"a", at>>>> ELSE <<>>
     IN Allocated(<<New(CollectionSchema(properties, undefined))>>)

\* title(title)
Call_Schema_title ==
  /\ Holding
  /\ \E title \in {Str("T"), Str("U")} : Set("title", "title", title)

\* description(description)
Call_Schema_description ==
  /\ Holding
  /\ Set("description", "description", Str("D"))

Call_Schema_array ==
  /\ Holding
  /\ Allocated(<<New(ArraySchema(at, undefined))>>)

Call_Schema_record ==
  /\ Holding
  /\ Allocated(<<New(StringSchema(undefined)),
                 New(RecordSchema(Len(heap) + 1, at, undefined))>>)

\* or(this)
Call_Schema_or ==
  /\ Holding
  /\ Allocated(<<New(UnionSchema(<<at, at>>, undefined))>>)

\* and()
Call_Schema_and ==
  /\ Holding
  /\ Allocated(<<New(IntersectionSchema(<<at>>))>>)

Call_Schema_optional ==
  /\ Holding
  /\ Allocated(<<New(OptionalSchema(at))>>)

Call_Schema_nullable ==
  /\ Holding
  /\ Allocated(<<New(NullSchema(undefined)),
                 New(UnionSchema(<<at, Len(heap) + 1>>, undefined))>>)

Call_Schema_nullish ==
  /\ Holding
  /\ Allocated(<<New(NullSchema(undefined)),
                 New(UnionSchema(<<at, Len(heap) + 1>>, undefined)),
                 New(OptionalSchema(Len(heap) + 2))>>)

Call_Schema_default ==
  /\ Holding
  /\ Allocated(<<New(DefaultSchema(at, Str("y")))>>)

\* delete(deletePolicy)
Call_RefSchema ==
  /\ Is({"ref"})
  /\ Set("delete", "deletePolicy", Str("cascade"))

\* min(minLength), max(maxLength), pattern(pattern)
Call_StringSchema ==
  /\ Is({"string"})
  /\ \/ Set("min", "minLength", Num(0))
     \/ Set("max", "maxLength", Num(5))
     \/ Set("pattern", "pattern", RegExp("^b"))

\* int(), long(), decimal(), double(), min(minimum), max(maximum),
\* exclusiveMin(exclusiveMinimum), exclusiveMax(exclusiveMaximum),
\* multipleOf(multipleOf)
Call_NumberSchema ==
  /\ Is({"number"})
  /\ \/ Set("int", "type", Str("int"))
     \/ Set("long", "type", Str("long"))
     \/ Set("decimal", "type", Str("decimal"))
     \/ Set("double", "type", Str("double"))
     \/ Set("min", "minimum", Num(0))
     \/ Set("max", "maximum", Num(5))
     \/ Set("exclusiveMin", "exclusiveMinimum", Bool(FALSE))
     \/ Set("exclusiveMax", "exclusiveMaximum", Bool(TRUE))
     \/ Set("multipleOf", "multipleOf", Num(5))

\* min(minItems), max(maxItems), unique()
Call_ArraySchema ==
  /\ Is({"array"})
  /\ \/ Set("min", "minItems", Num(0))
     \/ Set("max", "maxItems", Num(5))
     \/ Set("unique", "uniqueItems", Bool(TRUE))

Call_ObjectSchema_strict ==
  /\ Is({"object"})
  /\ Set("strict", "additionalProperties", Bool(FALSE))

Call_CollectionSchema_strict ==
  /\ Is({"document"})
  /\ Set("strict", "additionalProperties", Bool(FALSE))

\* faulty variant: the index pushed onto the list this.options holds
CollectionSchema_indexes_push(h, a, index) ==
  LET indexes == Get(Spread(OptionsOf(h, a)), "indexes")
  IN IF indexes \in {undefined, null}
     THEN [heap |-> Append(h, Arr(<<index>>)), indexes |-> Ref(Len(h) + 1)]
     ELSE [heap |-> [h EXCEPT ![indexes.at] = Arr(Append(@.a, index))],
           indexes |-> indexes]

\* [...(this.options?.indexes ?? []), index]: the heap with the new list
\* allocated, and the reference to it
CollectionSchema_indexes(h, a, index) ==
  LET indexes == Get(Spread(OptionsOf(h, a)), "indexes")
      old == IF indexes \in {undefined, null} THEN <<>> ELSE h[indexes.at].a
  IN [heap |-> Append(h, Arr(Append(old, index))), indexes |-> Ref(Len(h) + 1)]

Call_CollectionSchema_index ==
  /\ Is({"document"})
  /\ \E index \in { Obj([email |-> Num(1)]), Obj([name |-> Str("text")]) } :
       LET r == CollectionSchema_indexes(heap, at, index)
       IN /\ Len(r.heap) + 2 <= MaxCells
          /\ heap' = r.heap \o << With(OptionsOf(r.heap, at), "indexes", r.indexes),
                                  [heap[at] EXCEPT !.options = Len(r.heap) + 1] >>
          /\ at' = Len(heap')
          /\ calls' = Append(calls, [method |-> "index", key |-> "indexes",
                                     value |-> index, on |-> at])
  /\ UNCHANGED <<node, call, ret, invoked, ronk>>

\* strict(), min(minProperties), max(maxProperties)
Call_RecordSchema ==
  /\ Is({"record"})
  /\ \/ Set("strict", "additionalProperties", Bool(FALSE))
     \/ Set("min", "minProperties", Num(0))
     \/ Set("max", "maxProperties", Num(5))

Call_UnionSchema_exclusive ==
  /\ Is({"union"})
  /\ Set("exclusive", "exclusive", Bool(TRUE))

NextObjects ==
  \/ New_Primitive \/ New_RefSchema \/ New_EnumSchema \/ New_StringSchema
  \/ New_NumberSchema \/ New_ObjectSchema \/ New_CollectionSchema
  \/ Call_Schema_title \/ Call_Schema_description
  \/ Call_Schema_array \/ Call_Schema_record \/ Call_Schema_or \/ Call_Schema_and
  \/ Call_Schema_optional \/ Call_Schema_nullable \/ Call_Schema_nullish
  \/ Call_Schema_default
  \/ Call_RefSchema \/ Call_StringSchema \/ Call_NumberSchema \/ Call_ArraySchema
  \/ Call_ObjectSchema_strict
  \/ Call_CollectionSchema_strict \/ Call_CollectionSchema_index
  \/ Call_RecordSchema \/ Call_UnionSchema_exclusive

SpecObjects == Init /\ [][NextObjects]_vars

(***************************************************************************)
(* The database object (class Ronk) and its collections registry: a proxy  *)
(* over the object that holds one RonkCollection handle per name of the    *)
(* schema mapping.                                                         *)
(***************************************************************************)
\* a symbol used as a property key
Symbol(description) == [t |-> "symbol", description |-> description]

\* String(prop)
String(prop) ==
  IF prop.t = "symbol" THEN "Symbol(" \o prop.description \o ")" ELSE prop.s

\* an Error thrown with a message
Error(message) == [t |-> "throw", message |-> message]

\* the properties every plain object inherits from Object.prototype
ObjectPrototype == {"constructor", "toString"}

\* faulty variant: prop in collections, the inherited properties included
HasProperty(o, prop) ==
  prop.t = "string" /\ prop.s \in DOMAIN o \cup ObjectPrototype

\* Object.hasOwn(o, prop) for a plain object with string keys
HasOwn(o, prop) == prop.t = "string" /\ prop.s \in DOMAIN o

\* o[key] of a plain object: its own property, or the function it inherits
\* under that name, or undefined
GetProperty(o, key) ==
  IF key \in DOMAIN o THEN o[key]
  ELSE IF key \in ObjectPrototype THEN Instance("Function")
  ELSE undefined

\* new RonkCollection(db, name): the handle refers to the one database object
RonkCollection(name) == [t |-> "instance", class |-> "RonkCollection", name |-> name]

\* get schema() of a handle: this.db.schema[this.name]
RonkCollection_schema(self) == ronk.schema[self.name]

\* the name -> collection node mappings passed to db(schema)
SchemaLikes ==
  UNION { [names -> { CollectionSchema(<<>>, undefined),
                      CollectionSchema(<<<<"role", DefaultRole>>>>, undefined) }] :
          names \in SUBSET {"users", "posts", "toString"} }

\* the properties looked up on the registry
Props ==
  { Str("users"), Str("posts"), Str("comments"), Str("toString"),
    Str("constructor"), Symbol("Symbol.iterator") }

\* db(schema): new Ronk(schema), one handle per Object.keys(schema)
db ==
  /\ ronk.class = "none"
  /\ \E schema \in SchemaLikes :
       ronk' = [class |-> "Ronk", schema |-> schema,
                collections |-> [name \in DOMAIN schema |-> RonkCollection(name)]]
  /\ call' = [op |-> "db", input |-> undefined]
  /\ ret' = undefined
  /\ UNCHANGED <<node, invoked, heap, at, calls>>

\* the get trap of the proxy: db.collections[prop]
collections_get ==
  /\ ronk.class = "Ronk"
  /\ \E prop \in Props :
       /\ call' = [op |-> "get", input |-> prop]
       /\ ret' = IF HasOwn(ronk.collections, prop)
                 THEN GetProperty(ronk.collections, prop.s)
                 ELSE Error("Unknown collection: " \o String(prop))
  /\ UNCHANGED <<ronk, node, invoked, heap, at, calls>>

\* the apply trap of the proxy: db.collections(collection), the store's own
\* collection object, whatever the name
collections_apply ==
  /\ ronk.class = "Ronk"
  /\ \E name \in {Str("users"), Str("comments")} :
       /\ call' = [op |-> "apply", input |-> name]
       /\ ret' = Instance("Collection")
  /\ UNCHANGED <<ronk, node, invoked, heap, at, calls>>

NextRonk == db \/ collections_get \/ collections_apply

SpecRonk == Init /\ [][NextRonk]_vars

(***************************************************************************)
(* Requiredness.                                                           *)
(***************************************************************************)
\* the last call was required() on the held node
Asked == call.op = "required"

\* every member of a union or intersection node is required
EveryMember(u) == \A i \in DOMAIN u.types : required(u.types[i])

\* at least one member of a union or intersection node is required
SomeMember(u) == \E i \in DOMAIN u.types : required(u.types[i])

\* C1: a union node, wherever it is nested and whatever its members are, is
\* required if and only if every one of its members is required; required()
\* called on a union returns just that.
C1_UnionRequired ==
  /\ \A u \in SubSchemas(node) :
       u.kind = "union" => (required(u) <=> EveryMember(u))
  /\ (Asked /\ node.kind = "union") => ret = Bool(EveryMember(node))

\* required() was called on a union of a union: the inner union has a member
\* that is not required (an enum with undefined), and the answer is false
C1_Witness ==
  /\ Asked
  /\ node.kind = "union"
  /\ \E i \in DOMAIN node.types :
       /\ node.types[i].kind = "union"
       /\ \E j \in DOMAIN node.types[i].types :
            node.types[i].types[j].kind \in {"enum", "optional"}
       /\ ~EveryMember(node.types[i])
  /\ ret = Bool(FALSE)

\* C2: an intersection node, wherever it is nested, is required if and only
\* if at least one of its members is required; required() called on an
\* intersection returns just that.
C2_IntersectionRequired ==
  /\ \A u \in SubSchemas(node) :
       u.kind = "intersection" => (required(u) <=> SomeMember(u))
  /\ (Asked /\ node.kind = "intersection") => ret = Bool(SomeMember(node))

\* required() was called on an intersection of a required and a non-required
\* member, and the answer is true
C2_Witness ==
  /\ Asked
  /\ node.kind = "intersection"
  /\ Len(node.types) = 2
  /\ required(node.types[1]) # required(node.types[2])
  /\ ret = Bool(TRUE)

\* the classes C3 calls base nodes
BaseKinds == PrimitiveKinds \cup {"ref", "array", "object", "document", "record"}

\* C3: an optional node is never required, whatever node it wraps, and the
\* base nodes (null, bool, date, binary, objectId, ref, string, number, array,
\* object, document, record) are always required.
C3_OptionalAndBaseRequired ==
  /\ \A s \in SubSchemas(node) :
       /\ s.kind = "optional" => ~required(s)
       /\ s.kind \in BaseKinds => required(s)
  /\ (Asked /\ node.kind = "optional") => ret = Bool(FALSE)
  /\ (Asked /\ node.kind \in BaseKinds) => ret = Bool(TRUE)

\* required() was called on the optional of a required node and answered false
C3_Witness ==
  /\ Asked
  /\ node.kind = "optional"
  /\ required(node.type)
  /\ ret = Bool(FALSE)

\* C4: an enum node is required if and only if none of its values is
\* undefined: enum("a", "b") is required, enum("a", undefined) is not.
C4_EnumRequired ==
  /\ \A s \in SubSchemas(node) :
       s.kind = "enum" =>
         (required(s) <=> ~(\E i \in DOMAIN s.values : s.values[i] = undefined))
  /\ (Asked /\ node.kind = "enum") =>
       ret = Bool(\A i \in DOMAIN node.values : node.values[i].t # "undefined")
  /\ required(EnumSchema(<<Str("a"), Str("b")>>))
  /\ ~required(EnumSchema(<<Str("a"), undefined>>))

\* required() was called on enum("a", undefined) and answered false
C4_Witness ==
  /\ Asked
  /\ node = EnumSchema(<<Str("a"), undefined>>)
  /\ ret = Bool(FALSE)

(***************************************************************************)
(* The derivation of object, document and record nodes.                    *)
(***************************************************************************)
\* the child declared under a property name
Child(props, key) == props[CHOOSE i \in DOMAIN props : props[i][1] = key][2]

\* where a property name stands in the declaration
DeclPos(props, key) == CHOOSE i \in DOMAIN props : props[i][1] = key

\* the numeric rank of an array-index key
IndexRank(key) == CHOOSE i \in DOMAIN ArrayIndexKeys : ArrayIndexKeys[i] = key

\* the declared property names whose child is required
RequiredNames(props) == {k \in DeclaredKeys(props) : required(Child(props, k))}

\* the names that a required list holds
Listed(list) == {list[i].s : i \in DOMAIN list}

\* doc.required holds exactly the required declared names, each once, and
\* doc.properties one entry per declared name with the child's derivation
ExactlyTheRequired(s, doc) ==
  /\ doc.t = "object"
  /\ {"required", "properties"} \subseteq DOMAIN doc.o
  /\ doc.o.required.t = "array"
  /\ Listed(doc.o.required.a) = RequiredNames(s.props)
  /\ Len(doc.o.required.a) = Cardinality(RequiredNames(s.props))
  /\ DOMAIN doc.o.properties.o = DeclaredKeys(s.props)
  /\ \A k \in DeclaredKeys(s.props) :
       doc.o.properties.o[k] = bsonSchema(Child(s.props, k))

\* the names of a required list stand in declaration order
InDeclarationOrder(s, list) ==
  \A i, j \in DOMAIN list :
    i < j => DeclPos(s.props, list[i].s) < DeclPos(s.props, list[j].s)

\* the names of a required list stand in own-property order: array-index names
\* first, ascending, then the other names in declaration order
InOwnPropertyOrder(s, list) ==
  \A i, j \in DOMAIN list :
    i < j =>
      LET a == list[i].s
          b == list[j].s
      IN IF IsArrayIndex(a)
         THEN IsArrayIndex(b) => IndexRank(a) < IndexRank(b)
         ELSE ~IsArrayIndex(b) /\ DeclPos(s.props, a) < DeclPos(s.props, b)

ObjectKinds == {"object", "document"}

Derived == call.op = "bsonSchema"

\* C5 as claimed: the required list of an object or document node's
\* derivation holds exactly the declared names whose child is required, in
\* declaration order, and properties has one entry per declared name holding
\* the child's derivation.
C5_RequiredInDeclarationOrder ==
  /\ \A s \in SubSchemas(node) :
       s.kind \in ObjectKinds =>
         /\ ExactlyTheRequired(s, bsonSchema(s))
         /\ InDeclarationOrder(s, bsonSchema(s).o.required.a)
  /\ (Derived /\ node.kind \in ObjectKinds) =>
       /\ ExactlyTheRequired(node, ret)
       /\ InDeclarationOrder(node, ret.o.required.a)

\* C5 as amended: the same, with the required list in own-property order
\* (array-index names first, ascending, then the others in declaration order).
C5_RequiredInOwnPropertyOrder ==
  /\ \A s \in SubSchemas(node) :
       s.kind \in ObjectKinds =>
         /\ ExactlyTheRequired(s, bsonSchema(s))
         /\ InOwnPropertyOrder(s, bsonSchema(s).o.required.a)
  /\ (Derived /\ node.kind \in ObjectKinds) =>
       /\ ExactlyTheRequired(node, ret)
       /\ InOwnPropertyOrder(node, ret.o.required.a)

\* bsonSchema() was called on an object declared { role, 1, 0 } with every
\* child required: the list reads 0, 1, role
C5_Witness ==
  /\ Derived
  /\ node.kind \in ObjectKinds
  /\ [i \in DOMAIN node.props |-> node.props[i][1]] = <<"role", "1", "0">>
  /\ ret.o.required = Arr(<<Str("0"), Str("1"), Str("role")>>)

\* C10: the derivation of a record node with an enum key has properties with
\* exactly the enum's values as names, each holding the value node's
\* derivation; required is the list of the enum's values when the value node
\* is required and is not emitted when it is not; patternProperties is not
\* emitted.
EnumRecordDerivation(s, doc) ==
  /\ doc.t = "object"
  /\ "properties" \in DOMAIN doc.o
  /\ DOMAIN doc.o.properties.o = {s.key.values[i].s : i \in DOMAIN s.key.values}
  /\ \A k \in DOMAIN doc.o.properties.o : doc.o.properties.o[k] = bsonSchema(s.value)
  /\ required(s.value) =>
       "required" \in DOMAIN doc.o /\ doc.o.required = Arr(s.key.values)
  /\ ~required(s.value) => "required" \notin DOMAIN doc.o
  /\ "patternProperties" \notin DOMAIN doc.o

C10_EnumKeyRecord ==
  /\ \A s \in SubSchemas(node) :
       (s.kind = "record" /\ s.key.kind = "enum") =>
         EnumRecordDerivation(s, bsonSchema(s))
  /\ (Derived /\ node.kind = "record" /\ node.key.kind = "enum") =>
       EnumRecordDerivation(node, ret)

\* bsonSchema() was called on record(enum("x", "y"), v) with v not required:
\* properties has the names x and y and no required list is emitted
C10_Witness ==
  /\ Derived
  /\ node.kind = "record"
  /\ node.key = EnumKey
  /\ ~required(node.value)
  /\ DOMAIN ret.o.properties.o = {"x", "y"}
  /\ "required" \notin DOMAIN ret.o

(***************************************************************************)
(* Default-fill.                                                           *)
(***************************************************************************)
Filled == call.op = "fill"

\* what a default node's default resolves to
Resolved(defaultValue) ==
  IF isFunction(defaultValue) THEN defaultValue.returns ELSE defaultValue

\* C6: fill(undefined) on a default node over x returns x.fill(d), d being the
\* producer's result when the default is callable and the literal otherwise;
\* fill(v) for v not undefined returns x.fill(v) and does not invoke the
\* producer (the only invocations are those x.fill(v) makes itself).
C6_DefaultFill ==
  /\ (Filled /\ node.kind = "default") =>
       IF call.input = undefined
       THEN ret = fill(node.type, Resolved(node.defaultValue)).v
       ELSE /\ ret = fill(node.type, call.input).v
            /\ invoked = fill(node.type, call.input).n
  /\ fill(DefaultSchema(StringSchema(undefined), Fn(Str("x"))), undefined).v = Str("x")
  /\ fill(DefaultSchema(StringSchema(undefined), Str("y")), undefined).v = Str("y")
  /\ fill(DefaultSchema(StringSchema(undefined), Fn(Str("x"))), Str("z"))
       = [v |-> Str("z"), n |-> 0]

\* fill(undefined) on a default node with a producer returned the producer's
\* result
C6_Witness ==
  /\ Filled
  /\ node.kind = "default"
  /\ isFunction(node.defaultValue)
  /\ call.input = undefined
  /\ ret = node.defaultValue.returns
  /\ invoked = 1

\* the default nodes with a producer nested in a node
Producers(n) == {s \in SubSchemas(n) : s.kind = "default" /\ isFunction(s.defaultValue)}

\* C7 as claimed: a producer is never invoked while nodes are constructed or
\* by bsonSchema() / required(), and a fill of its default node invokes it
\* exactly once.
C7_OncePerFill ==
  /\ ~Filled => invoked = 0
  /\ (Filled /\ node.kind = "default" /\ isFunction(node.defaultValue)
        /\ Producers(node.type) = {}) =>
       invoked = 1

\* the number of elements of an array that are present and undefined
RECURSIVE Undefineds(_)
Undefineds(a) ==
  IF a = <<>> THEN 0
  ELSE (IF Head(a) = undefined THEN 1 ELSE 0) + Undefineds(Tail(a))

\* C7 as amended: a producer is never invoked while nodes are constructed or
\* by bsonSchema() / required(); a fill invokes it once each time its default
\* node is filled with undefined and not at all when that node is filled with
\* a value that is not undefined: no invocation when the input is given, one
\* per undefined element when the node is the item of an array.
C7_OncePerAbsentInput ==
  /\ ~Filled => invoked = 0
  /\ (Filled /\ node.kind = "default" /\ isFunction(node.defaultValue)) =>
       LET arg == IF call.input = undefined THEN node.defaultValue.returns
                  ELSE call.input
       IN invoked = (IF call.input = undefined THEN 1 ELSE 0) + fill(node.type, arg).n
  /\ (Filled /\ Producers(node) = {}) => invoked = 0
  /\ (Filled /\ node.kind = "array" /\ isArray(call.input)
        /\ node.items.kind = "default" /\ isFunction(node.items.defaultValue)
        /\ Producers(node.items.type) = {}) =>
       invoked = Undefineds(call.input.a)

\* a fill of an object with two properties of the same producer default, both
\* absent from the input, invoked the producer twice
C7_Witness ==
  /\ Filled
  /\ node.kind \in ObjectKinds
  /\ Cardinality(Producers(node)) = 1
  /\ invoked = 2

\* C8: fill of an object or document node on a plain object returns an object
\* in which every declared name holds its child's fill of the input's value
\* under that name, and every other name of the input holds the input's
\* value; with role: default(enum("admin", "user"), "user"), fill({extra: 1})
\* is {extra: 1, role: "user"}.
C8_ObjectFill ==
  /\ (Filled /\ node.kind \in ObjectKinds /\ isPlainObject(call.input)) =>
       /\ ret.t = "object"
       /\ \A k \in DeclaredKeys(node.props) :
            /\ k \in DOMAIN ret.o
            /\ ret.o[k] = fill(Child(node.props, k), Get(call.input.o, k)).v
       /\ \A k \in DOMAIN call.input.o \ DeclaredKeys(node.props) :
            /\ k \in DOMAIN ret.o
            /\ ret.o[k] = call.input.o[k]
  /\ fill(CollectionSchema(<<<<"role", DefaultRole>>>>, undefined),
          Obj([extra |-> Num(1)])).v
       = Obj([extra |-> Num(1), role |-> Str("user")])

\* fill({extra: 1}) on a document node that declares role with the default
\* "user" returned an object with extra: 1 and role: "user"
C8_Witness ==
  /\ Filled
  /\ node.kind = "document"
  /\ \E i \in DOMAIN node.props : node.props[i] = <<"role", DefaultRole>>
  /\ call.input = Obj([extra |-> Num(1)])
  /\ ret.o.extra = Num(1)
  /\ ret.o.role = Str("user")

\* C9: fill of an array node on a sequence returns a sequence of the same
\* length whose i-th element is the item node's fill of the input's i-th
\* element, an absent element being replaced by the item node's default.
C9_ArrayFill ==
  (Filled /\ node.kind = "array" /\ isArray(call.input)) =>
    /\ ret.t = "array"
    /\ Len(ret.a) = Len(call.input.a)
    /\ \A i \in DOMAIN ret.a :
         At(ret.a, i) = fill(node.items, At(call.input.a, i)).v

(***************************************************************************)
(* The node objects under the combinators and the setters.                 *)
(***************************************************************************)
\* a step leaves the cell at an address as it is; a node object there still
\* reads as the same node and derives and reports what it did
Untouched(a) ==
  /\ a \in DOMAIN heap'
  /\ heap'[a] = heap[a]
  /\ "kind" \in DOMAIN heap[a] =>
       /\ NodeAt(heap', a) = NodeAt(heap, a)
       /\ bsonSchema(NodeAt(heap', a)) = bsonSchema(NodeAt(heap, a))
       /\ required(NodeAt(heap', a)) = required(NodeAt(heap, a))

\* C11: immutability.  No call of a factory, a combinator or a setter alters
\* an object that exists: every node object keeps its fields (its options
\* object and the indexes list in it, its children, ref, values and
\* defaultValue), and bsonSchema() and required() on it return what they
\* returned before the call.
C11_Immutable == [][\A a \in DOMAIN heap : Untouched(a)]_vars

\* index() was called twice in a row on a document node: the node returned
\* holds two indexes, the node of the first call's result still one, and the
\* node the first call was made on still has no options
C11_Witness ==
  /\ Len(calls) = 2
  /\ calls[1].method = "index"
  /\ calls[2].method = "index"
  /\ heap[calls[1].on].options = 0
  /\ Len(OptionsValue(heap, calls[2].on).o.indexes.a) = 1
  /\ Len(OptionsValue(heap, at).o.indexes.a) = 2

\* the last setter call made
LastCall == calls[Len(calls)]

\* C12: the document bsonSchema() derives from the node that title(t)
\* returned carries title = t at its top level, and the one derived from the
\* node that description(t) returned carries description = t, whatever the
\* kind of the node.
C12_TitleDerived ==
  (calls # <<>> /\ LastCall.method \in {"title", "description"}) =>
    LET doc == bsonSchema(NodeAt(heap, at))
    IN /\ LastCall.key \in DOMAIN doc.o
       /\ doc.o[LastCall.key] = LastCall.value

(***************************************************************************)
(* The type tags of a derived document.                                    *)
(***************************************************************************)
RECURSIVE TypeTags(_)
\* every bsonType value that appears in a derived document, at any depth
TypeTags(v) ==
  CASE v.t = "object" ->
         (IF "bsonType" \in DOMAIN v.o THEN {v.o.bsonType} ELSE {})
           \cup UNION {TypeTags(v.o[k]) : k \in DOMAIN v.o \ {"bsonType"}}
    [] v.t = "array" -> UNION {TypeTags(v.a[i]) : i \in DOMAIN v.a}
    [] OTHER -> {}

\* the type tags the derivation is said to use
Vocabulary ==
  { Str("null"), Str("bool"), Str("date"), Str("binData"), Str("objectId"),
    Str("string"), Str("int"), Str("long"), Str("decimal"), Str("double"),
    Str("array"), Str("object") }

\* the type option of a number node (undefined when none was set)
Subtype(s) == Get(Spread(s.options), "type")

\* C13 as claimed: every type tag in the document bsonSchema() returns is one
\* of null, bool, date, binData, objectId, string, int, long, decimal, double,
\* array, object.
C13_TypeTagsInVocabulary ==
  Derived => TypeTags(ret) \subseteq Vocabulary

\* C13 as amended: every type tag in the document bsonSchema() returns is one
\* of those twelve or "number"; a number node's subtype is the type tag of
\* its document, and a number node with no subtype has the tag "number".
C13_TypeTagsWithNumber ==
  /\ Derived => TypeTags(ret) \subseteq Vocabulary \cup {Str("number")}
  /\ \A s \in SubSchemas(node) :
       s.kind = "number" =>
         bsonSchema(s).o.bsonType
           = (IF Subtype(s) = undefined THEN Str("number") ELSE Subtype(s))
  /\ (Derived /\ node.kind = "number" /\ Subtype(node) # undefined) =>
       /\ ret.o.bsonType = Subtype(node)
       /\ ret.o.bsonType \in Vocabulary

\* bsonSchema() was called on a node that wraps number(): the tag "number"
\* stands in the document next to the wrapper's own
C13_Witness ==
  /\ Derived
  /\ node.kind \in {"array", "object", "document"}
  /\ \E s \in SubSchemas(node) : s.kind = "number" /\ Subtype(s) = undefined
  /\ Str("number") \in TypeTags(ret)
  /\ TypeTags(ret) \cap Vocabulary # {}

(***************************************************************************)
(* The collections registry.                                               *)
(***************************************************************************)
\* the last call was a lookup of a property on the registry
Looked == call.op = "get"

\* a property is a name the schema mapping declares
Declared(prop) == prop.t = "string" /\ prop.s \in DOMAIN ronk.schema

\* C14: a lookup on the registry returns a collection handle if and only if
\* the property is a name of the schema mapping; the handle carries that name
\* and its schema is the node the mapping holds under it; a lookup of any
\* other property throws "Unknown collection: " followed by the property; and
\* whatever was looked up, the registry holds exactly one handle per name of
\* the mapping.
C14_RegistryLookup ==
  /\ Looked =>
       /\ Declared(call.input) <=> (ret.t = "instance" /\ ret.class = "RonkCollection")
       /\ Declared(call.input) =>
            /\ ret.name = call.input.s
            /\ RonkCollection_schema(ret) = ronk.schema[call.input.s]
       /\ ~Declared(call.input) =>
            ret = Error("Unknown collection: " \o String(call.input))
  /\ ronk.class = "Ronk" =>
       /\ DOMAIN ronk.collections = DOMAIN ronk.schema
       /\ \A name \in DOMAIN ronk.schema : ronk.collections[name].name = name

\* the lookup of constructor, a property every object inherits, on the
\* registry of a database that declares users and posts threw
C14_Witness ==
  /\ Looked
  /\ DOMAIN ronk.schema = {"users", "posts"}
  /\ call.input = Str("constructor")
  /\ ret = Error("Unknown collection: constructor")

(***************************************************************************)
(* Default-fill on any input.                                              *)
(***************************************************************************)
\* the values a fill may return: every kind of value, and nothing thrown
Values ==
  {"undefined", "null", "string", "number", "boolean", "array", "object",
   "regexp", "instance", "function"}

\* what a fill that hands its input back without calling anything returns
Untransformed(input) == [v |-> input, n |-> 0]

\* C15: fill returns a value for every node and every input, never an error;
\* an array node filled with an input that is not an array returns that
\* input, and an object, document or record node filled with an input that
\* is not a plain object (null, an array, a scalar, a class instance) returns
\* that input, in both cases without a child fill or a producer being
\* invoked.
C15_FillDefensive ==
  /\ Filled =>
       /\ ret.t \in Values
       /\ (node.kind = "array" /\ call.input.t # "array") =>
            (ret = call.input /\ invoked = 0)
       /\ (node.kind \in {"object", "document", "record"} /\ call.input.t # "object") =>
            (ret = call.input /\ invoked = 0)
  /\ \A s \in SubSchemas(node) : \A input \in Inputs :
       /\ fill(s, input).v.t \in Values
       /\ (s.kind = "array" /\ input.t # "array") =>
            fill(s, input) = Untransformed(input)
       /\ (s.kind \in {"object", "document", "record"} /\ input.t # "object") =>
            fill(s, input) = Untransformed(input)

\* fill(null) on an object node that declares a property with a producer
\* default returned null and invoked nothing
C15_Witness ==
  /\ Filled
  /\ node.kind = "object"
  /\ Producers(node) # {}
  /\ call.input = null
  /\ ret = null
  /\ invoked = 0

\* the classes whose fill is said to hand its input back
PassThroughKinds == PrimitiveKinds \cup {"record", "union", "intersection", "enum", "ref"}

\* C16: fill(v) on a record, union, intersection, enum, ref or primitive node
\* returns a value equal to v: the defaults declared in a record's value node
\* or in the members of a union or intersection (so also under nullable())
\* are not applied and no producer there is invoked.
C16_PassThrough ==
  /\ (Filled /\ node.kind \in PassThroughKinds) =>
       (ret = call.input /\ invoked = 0)
  /\ \A s \in SubSchemas(node) : \A input \in Inputs :
       s.kind \in PassThroughKinds => fill(s, input) = Untransformed(input)

\* fill on a record whose value node has a producer default, with an object
\* that holds undefined under a key, returned an equal object and invoked
\* nothing
C16_Witness ==
  /\ Filled
  /\ node.kind = "record"
  /\ node.value.kind = "default"
  /\ isFunction(node.value.defaultValue)
  /\ call.input = Obj([role |-> Str("admin"), extra |-> undefined])
  /\ ret = call.input
  /\ invoked = 0

(***************************************************************************)
(* The requiredness of default nodes.                                      *)
(***************************************************************************)
\* the declared names of an object node whose child is of a kind
NamesOfKind(s, kind) == {k \in DeclaredKeys(s.props) : Child(s.props, k).kind = kind}

\* C17: a default node is required whatever node it wraps, also one that is
\* not required (an optional node, an enum with undefined); a property
\* declared with a default node is listed in the required list of the
\* enclosing object's document, and one declared with an optional node (a
\* default node made optional included) is not.
C17_DefaultRequired ==
  /\ \A s \in SubSchemas(node) :
       /\ s.kind = "default" => required(s)
       /\ s.kind \in ObjectKinds =>
            /\ NamesOfKind(s, "default") \subseteq Listed(bsonSchema(s).o.required.a)
            /\ NamesOfKind(s, "optional") \cap Listed(bsonSchema(s).o.required.a) = {}
  /\ (Asked /\ node.kind = "default") => ret = Bool(TRUE)
  /\ (Derived /\ node.kind \in ObjectKinds) =>
       /\ NamesOfKind(node, "default") \subseteq Listed(ret.o.required.a)
       /\ NamesOfKind(node, "optional") \cap Listed(ret.o.required.a) = {}
  /\ required(DefaultSchema(OptionalString, Str("y")))
  /\ ~required(OptionalSchema(DefaultSchema(StringSchema(undefined), Str("y"))))
  /\ bsonSchema(ObjectSchema(
         <<<<"a", DefaultSchema(OptionalString, Str("y"))>>,
           <<"b", OptionalSchema(DefaultSchema(StringSchema(undefined), Str("y")))>>>>,
         undefined)).o.required
       = Arr(<<Str("a")>>)

\* required() was called on the default of a node that is not required and
\* answered true
C17_Witness ==
  /\ Asked
  /\ node.kind = "default"
  /\ ~required(node.type)
  /\ ret = Bool(TRUE)

(***************************************************************************)
(* Filling what a fill returned.                                           *)
(***************************************************************************)
\* C18: fill is idempotent.  Filling the value a fill returned, with the same
\* node, returns that value again: n.fill(n.fill(v)) equals n.fill(v) for
\* every node built, every node nested in it and every input (a producer
\* returns the same value at every invocation).
C18_FillIdempotent ==
  /\ Filled => fill(node, ret).v = ret
  /\ \A s \in SubSchemas(node) : \A input \in Inputs :
       fill(s, fill(s, input).v).v = fill(s, input).v

\* a fill that changed its input (a default was applied under an object or
\* array node) returned a value that a second fill leaves as it is, and the
\* second fill invokes no producer
C18_Witness ==
  /\ Filled
  /\ node.kind \in {"object", "document", "array"}
  /\ ret # call.input
  /\ invoked > 0
  /\ fill(node, ret) = [v |-> ret, n |-> 0]

(***************************************************************************)
(* The keys of a filled object.                                            *)
(***************************************************************************)
\* C19: the keys of the object that fill of an object or document node
\* returns for a plain object are the keys of the input together with the
\* declared names; a declared name that the input does not have and whose
\* child's fill yields undefined (an optional property that is absent) is a
\* key of the result, holding undefined.
C19_FilledKeys ==
  (Filled /\ node.kind \in ObjectKinds /\ isPlainObject(call.input)) =>
    /\ ret.t = "object"
    /\ DOMAIN ret.o = DOMAIN call.input.o \cup DeclaredKeys(node.props)
    /\ \A k \in DeclaredKeys(node.props) \ DOMAIN call.input.o :
         Child(node.props, k).kind = "optional" => ret.o[k] = undefined

\* fill({extra: 1}) on an object node that declares name as an optional
\* string returned an object with the key name, holding undefined
C19_Witness ==
  /\ Filled
  /\ node.kind \in ObjectKinds
  /\ \E i \in DOMAIN node.props : node.props[i] = <<"name", OptionalString>>
  /\ call.input = Obj([extra |-> Num(1)])
  /\ "name" \in DOMAIN ret.o
  /\ ret.o.name = undefined
  /\ "extra" \in DOMAIN ret.o

(***************************************************************************)
(* The options after a sequence of setter calls.                           *)
(***************************************************************************)
\* the option keys the setter calls wrote
KeysSet == {calls[i].key : i \in DOMAIN calls}

\* the value the last call that wrote an option key passed
LastSetting(key) ==
  LET last == CHOOSE i \in DOMAIN calls :
                /\ calls[i].key = key
                /\ \A j \in DOMAIN calls : calls[j].key = key => j <= i
  IN calls[last].value

RECURSIVE IndexArguments(_)
\* the arguments of the index() calls among some calls, in call order
IndexArguments(cs) ==
  IF cs = <<>> THEN <<>>
  ELSE (IF Head(cs).method = "index" THEN <<Head(cs).value>> ELSE <<>>)
         \o IndexArguments(Tail(cs))

\* a node object without its options: its class and its other fields
Fields(c) == [c EXCEPT !.options = 0]

\* C20: option setters accumulate.  After a sequence of setter calls that
\* started on a node just constructed, the options of the node returned hold
\* exactly the keys the calls wrote, each with the value of the last call
\* that wrote it (so an option written earlier under another key is still
\* there); indexes holds the arguments of the index() calls in call order;
\* and the class and the children are those of the node the calls started
\* on.
C20_SettersAccumulate ==
  calls # <<>> =>
    LET options == OptionsValue(heap, at)
    IN /\ options.t = "object"
       /\ DOMAIN options.o = KeysSet
       /\ \A key \in KeysSet \ {"indexes"} : options.o[key] = LastSetting(key)
       /\ "indexes" \in KeysSet =>
            /\ options.o.indexes = Arr(IndexArguments(calls))
            /\ Len(options.o.indexes.a)
                 = Cardinality({i \in DOMAIN calls : calls[i].method = "index"})
       /\ Fields(heap[at]) = Fields(heap[calls[1].on])

\* three setter calls, the first and the third writing the same key with
\* different values and the second another key: the options hold the third
\* call's value and the second's
C20_Witness ==
  /\ Len(calls) = 3
  /\ calls[1].key = calls[3].key
  /\ calls[1].value # calls[3].value
  /\ calls[2].key # calls[1].key
  /\ OptionsValue(heap, at).o[calls[3].key] = calls[3].value
  /\ OptionsValue(heap, at).o[calls[2].key] = calls[2].value

====
